---------------------------- MODULE Spec2Model ----------------------------
(***************************************************************************)
(* Archive format engine of SLADE: the Quake BSP texture directory         *)
(* (BSPArchive) and the Dark Forces LFD resource map (LfdArchive), as      *)
(* written in src/src/Archive/Formats/BSPArchive.cpp.                      *)
(*                                                                         *)
(* A byte source is a sequence of bytes with a read cursor.  Integer       *)
(* widths are kept in proportion: a byte holds ByteBits bits, a uint32_t   *)
(* is four bytes (little-endian, the host is little-endian so              *)
(* wxINT32_SWAP_ON_BE is the identity) and wraps at UInt32Mod; a size_t is *)
(* a uint32_t on an ILP32 build and a uint32_t plus an upper half of       *)
(* HiBits bits on an LP64 build.  A variable the code reads before it      *)
(* has been written holds an arbitrary value, drawn from Garbage.          *)
(***************************************************************************)
EXTENDS Integers, Sequences, FiniteSets, TLC

VARIABLES
    mc,                 \* the byte source handed to open / is*Archive: [data, cur]
    build,              \* the data model of the build: "ILP32" or "LP64"
    archive_load_data,  \* the archive_load_data setting
    archive,            \* the archive object: [format, entries, muted, modified, readOnly]
    source,             \* the bytes the archive was opened from (used by lazy loads)
    events,             \* what the archive has done so far, in order
    trace,              \* the seeks and reads the last call made on its byte source
    out,                \* the MemChunk handed to write: [data, cur]
    reopened,           \* the archive obtained by opening the written bytes again
    first,              \* name, size and payload of each entry as open left them
    last                \* the last call and what it returned

vars ==
    <<mc, build, archive_load_data, archive, source, events, trace, out, reopened,
      first, last>>

-----------------------------------------------------------------------------
(* Bounds of the model *)

ByteBits == 4           \* bits of one byte
HiBits == 2             \* bits of the upper half of an LP64 size_t
MaxEntries == 2         \* payload records / textures of a generated source

ByteMod == 2 ^ ByteBits
UInt32Mod == ByteMod ^ 4
UInt32Max == UInt32Mod - 1
HiMod == 2 ^ HiBits

SizeTMod(b) == IF b = "ILP32" THEN UInt32Mod ELSE UInt32Mod * HiMod

Min2(a, b) == IF a < b THEN a ELSE b

\* The values uninitialised variables may hold: w, v: a uint32_t or the bytes
\* of a char array, hi: the upper half of a size_t on LP64.
GarbageWords == {0, 8, UInt32Max}
GarbageHis == {0, 1, HiMod - 1}
BSPGarbage(b) ==
    [w : GarbageWords, hi : IF b = "LP64" THEN GarbageHis ELSE {0}]
LfdGarbage == [w : GarbageWords, v : GarbageWords]

-----------------------------------------------------------------------------
(* Bytes, words and C strings *)

\* The code of a character (a char is one byte; 0 is NUL).
Chr(c) ==
    CASE c = "." -> 1 [] c = "A" -> 2 [] c = "M" -> 3 [] c = "P" -> 4
      [] c = "R" -> 5 [] c = "c" -> 6 [] c = "e" -> 7 [] c = "o" -> 8
      [] c = "r" -> 9 [] c = "s" -> 10 [] c = "u" -> 11 [] c = "T" -> 12
      [] c = "X" -> 13

\* The bytes of a string literal given character by character.
Str(cs) == [i \in 1..Len(cs) |-> Chr(cs[i])]

\* A uint32_t as its four bytes in memory (little-endian host).
Enc32(v) ==
    << v % ByteMod, (v \div ByteMod) % ByteMod,
       (v \div (ByteMod ^ 2)) % ByteMod, (v \div (ByteMod ^ 3)) % ByteMod >>

\* The uint32_t held in four bytes of memory.
Dec32(b) == b[1] + ByteMod * b[2] + (ByteMod ^ 2) * b[3] + (ByteMod ^ 3) * b[4]

\* The C string held in a char array: the bytes before the first NUL.
CStr(b) ==
    LET nuls == {i \in 1..Len(b) : b[i] = 0}
    IN  IF nuls = {} THEN b
        ELSE SubSeq(b, 1, (CHOOSE i \in nuls : \A j \in nuls : i <= j) - 1)

\* s zero-padded or truncated to n bytes.
Pad(s, n) == [i \in 1..n |-> IF i <= Len(s) THEN s[i] ELSE 0]

Zeros(n) == [i \in 1..n |-> 0]

RECURSIVE Concat(_)
Concat(ss) == IF ss = <<>> THEN <<>> ELSE Head(ss) \o Concat(Tail(ss))

RECURSIVE SumSeq(_)
SumSeq(s) == IF s = <<>> THEN 0 ELSE Head(s) + SumSeq(Tail(s))

-----------------------------------------------------------------------------
(* MemChunk: the byte source *)

BytesAt(data, pos, n) == SubSeq(data, pos + 1, pos + n)

\* MemChunk::seek(offset, SEEK_SET): the cursor never leaves [0, size].
McSeek(r, size, off) ==
    [r EXCEPT !.cur = Min2(off, size), !.trace = Append(@, <<"seek", off>>)]

\* MemChunk::read(buf, n) succeeds iff n bytes remain.
McCanRead(r, size, n) == r.cur + n <= size

\* MemChunk::read(buf, n): the cursor advances only when the read succeeds.
\* The trace notes what the caller reads the bytes for.
McRead(r, size, n, what) ==
    [r EXCEPT !.cur = IF McCanRead(r, size, n) THEN @ + n ELSE @,
              !.trace = Append(@, <<"read", r.cur, n, what>>)]

\* MemChunk::operator[]: one byte, no cursor movement.
McIndex(r, i) == [r EXCEPT !.trace = Append(@, <<"read", i, 1, "magic">>)]

\* MemChunk::exportMemChunk(mc, start, size) succeeds iff the range is inside.
McCanExport(dsize, start, n) == start < dsize /\ start + n <= dsize

-----------------------------------------------------------------------------
(* ArchiveEntry *)

\* new ArchiveEntry(name, size); setLoaded(false); exProp("Offset") = offset;
\* setState(0)
NewLump(name, size, offset) ==
    [name |-> name, size |-> size, offset |-> offset, loaded |-> FALSE,
     state |-> 0, data |-> <<>>, type |-> "unknown", obj |-> "new"]

\* ArchiveEntry::importMemChunk: nothing happens when the MemChunk holds no data.
ImportMemChunk(e, edata) ==
    IF edata = <<>> THEN e
    ELSE [e EXCEPT !.data = edata, !.size = Len(edata), !.loaded = TRUE,
                   !.state = 1, !.type = "unknown"]

\* EntryType::detectEntryType: an opaque tag.
DetectEntryType(e) == [e EXCEPT !.type = "detected"]

\* ArchiveEntry::unloadData
UnloadData(e) == [e EXCEPT !.data = <<>>, !.loaded = FALSE]

\* StrUtil::Path: the position of the last '.' of a file name, 0 when none.
LastDot(s) ==
    LET dots == {i \in 1..Len(s) : s[i] = Chr(".")}
    IN  IF dots = {} THEN 0 ELSE CHOOSE i \in dots : \A j \in dots : j <= i

\* StrUtil::Path::fileNameOf(name, false): the name without its extension.
FileNameOf(s) == IF LastDot(s) = 0 THEN s ELSE SubSeq(s, 1, LastDot(s) - 1)

\* StrUtil::Path::extensionOf(name)
ExtensionOf(s) == IF LastDot(s) = 0 THEN <<>> ELSE SubSeq(s, LastDot(s) + 1, Len(s))

\* StrUtil::Path fn(name); fn.setExtension(type); fn.fileName()
PathWithExtension(name, type) ==
    IF type = <<>> THEN FileNameOf(name) ELSE FileNameOf(name) \o <<Chr(".")>> \o type

-----------------------------------------------------------------------------
(* The pass over the entries that open() runs after the directory is read *)

\* The iteration without the unloading of the entry's data.
DetectOneKeepingData(data, e, edata, load_data) ==
    LET canExp == McCanExport(Len(data), e.offset, e.size)
        edata1 == IF e.size > 0 /\ canExp
                  THEN BytesAt(data, e.offset, e.size) ELSE edata
        e1 == IF e.size > 0 THEN ImportMemChunk(e, edata1) ELSE e
        e2 == DetectEntryType(e1)
    IN  [entry |-> [e2 EXCEPT !.state = 0], edata |-> edata1,
         export |-> IF e.size > 0 THEN << <<"export", e.offset, e.size>> >> ELSE <<>>]

\* One iteration of the "Detect all entry types" loop on entry e; edata is the
\* MemChunk declared before the loop, which keeps its bytes when an export fails.
DetectOne(data, e, edata, load_data) ==
    LET canExp == McCanExport(Len(data), e.offset, e.size)
        edata1 == IF e.size > 0 /\ canExp
                  THEN BytesAt(data, e.offset, e.size) ELSE edata
        e1 == IF e.size > 0 THEN ImportMemChunk(e, edata1) ELSE e
        e2 == DetectEntryType(e1)
        e3 == IF ~load_data THEN UnloadData(e2) ELSE e2
    IN  [entry |-> [e3 EXCEPT !.state = 0], edata |-> edata1,
         export |-> IF e.size > 0 THEN << <<"export", e.offset, e.size>> >> ELSE <<>>]

RECURSIVE DetectAll(_, _, _, _, _)
DetectAll(data, r, a, edata, load_data) ==
    IF a > Len(r.entries) THEN r
    ELSE LET d == DetectOne(data, r.entries[a], edata, load_data)
         IN  DetectAll(data,
                       [r EXCEPT !.entries[a] = d.entry,
                                 !.trace = @ \o d.export,
                                 !.events = Append(@, <<"detect", a>>)],
                       a + 1, d.edata, load_data)

\* Announcer::announce: nothing is announced while the archive is muted.
Announce(r, what) ==
    IF r.muted THEN r ELSE [r EXCEPT !.events = Append(@, <<"announce", what>>)]

\* The tail of open with the announcement made as soon as the archive is
\* unmuted, ahead of the type detection.
FinishOpenAnnounceFirst(data, r, load_data) ==
    LET r1 == Announce([r EXCEPT !.muted = FALSE], "opened")
        r2 == DetectAll(data, [r1 EXCEPT !.muted = TRUE], 1, <<>>, load_data)
    IN  [r2 EXCEPT !.muted = FALSE, !.modified = FALSE, !.status = "true"]

\* The tail of both open() functions: detect types, unmute, announce.
FinishOpen(data, r, load_data) ==
    LET r1 == DetectAll(data, r, 1, <<>>, load_data)
        r2 == [r1 EXCEPT !.muted = FALSE, !.modified = FALSE]
    IN  [Announce(r2, "opened") EXCEPT !.status = "true"]

\* A value the call decoded, noted in its trace.
Log(r, x) == [r EXCEPT !.trace = Append(@, x)]

\* return false, at the check named why.
Fail(r, why) == [r EXCEPT !.status = "false", !.trace = Append(@, <<"reject", why>>)]

\* The frame of a call: the archive's fields it may change, the cursor and
\* what it did.
Frame(a, cur) ==
    [cur |-> cur, trace |-> <<>>, entries |-> a.entries, events |-> <<>>,
     muted |-> a.muted, modified |-> a.modified, status |-> "run"]

-----------------------------------------------------------------------------
(* LfdArchive::open *)

\* "Read each entry": offset is the size_t tracked by the loop, seen the
\* (offset, cursor) pairs an iteration has already started at (a repeated pair
\* repeats the iterations between for ever: the call does not return).
RECURSIVE LfdReadEntries(_, _, _, _, _)
LfdReadEntries(data, b, r, offset, seen) ==
    LET size == Len(data) IN
    IF ~(offset < size) THEN r
    ELSE IF <<offset, r.cur>> \in seen THEN [r EXCEPT !.status = "hang"]
    ELSE
      LET type == IF McCanRead(r, size, 4) THEN BytesAt(data, r.cur, 4) ELSE Zeros(4)
          r1 == McRead(r, size, 4, "record")
          name == IF McCanRead(r1, size, 8) THEN BytesAt(data, r1.cur, 8) ELSE Zeros(8)
          r2 == McRead(r1, size, 8, "record")
          length == IF McCanRead(r2, size, 4) THEN Dec32(BytesAt(data, r2.cur, 4)) ELSE 0
          off1 == (offset + 16) % SizeTMod(b)
          r3 == Log(McRead(r2, size, 4, "record"), <<"record", off1, length>>)
      IN  IF (off1 + length) % SizeTMod(b) > size
          THEN Fail([r3 EXCEPT !.muted = FALSE], "bounds")
          ELSE LET nlump == NewLump(PathWithExtension(CStr(name), CStr(type)),
                                    length, off1 % UInt32Mod)
                   r4 == [r3 EXCEPT !.entries = Append(@, nlump),
                                    !.events = Append(@, <<"addEntry", Len(r3.entries) + 1>>)]
                   off2 == (off1 + length) % SizeTMod(b)
               IN  LfdReadEntries(data, b, McSeek(r4, size, off2 % UInt32Mod),
                                  off2, seen \cup {<<offset, r.cur>>})

\* The size test taken one byte too far.
LfdTooShortOrEqual(size) == size <= 16

\* "Check size": if (mc.size() < 16) return false
LfdTooShort(size) == size < 16

\* The count comparison treated as a failure of the decode.
LfdCheckCountFatal(r, num_lumps) ==
    IF num_lumps # Len(r.entries) THEN Fail([r EXCEPT !.muted = FALSE], "count") ELSE r

\* if (num_lumps != numEntries()) Log::warning(...): open goes on.
LfdCheckCount(r, num_lumps) ==
    IF num_lumps # Len(r.entries) THEN Log(r, <<"warning", "count">>) ELSE r

LfdOpenRun(data, b, a, cur, load_data) ==
    LET size == Len(data)
        r0 == Frame(a, cur)
    IN  IF size = 0 THEN Fail(r0, "nodata")
        ELSE IF LfdTooShort(size) THEN Fail(r0, "size")
        ELSE
          LET r1 == McIndex(McIndex(McIndex(McIndex(r0, 0), 1), 2), 3)
          IN  IF BytesAt(data, 0, 4) # Str(<<"R", "M", "A", "P">>) THEN Fail(r1, "magic")
              ELSE
                LET r2 == McRead(McSeek(r1, size, 12), size, 4, "dirlen")
                    dir_len == Dec32(BytesAt(data, 12, 4))
                IN  IF size < dir_len \/ dir_len % 16 # 0 THEN Fail(r2, "dirlen")
                    ELSE
                      LET r3 == [r2 EXCEPT !.muted = TRUE]
                          r4 == LfdReadEntries(data, b, r3, (dir_len + 16) % UInt32Mod, {})
                          r5 == IF r4.status # "run" THEN r4
                                ELSE LfdCheckCount(r4, dir_len \div 16)
                      IN  IF r5.status # "run" THEN r5
                          ELSE FinishOpen(data, r5, load_data)

-----------------------------------------------------------------------------
(* BSPArchive::open *)

\* What a failed read leaves in a uint32_t: the variable was never written.
Read32(data, r, g) ==
    IF McCanRead(r, Len(data), 4) THEN Dec32(BytesAt(data, r.cur, 4)) ELSE g.w

\* What mc.read(&offset, 4) leaves in "size_t offset": the low four bytes come
\* from the source, the upper half (LP64) is never written.
ReadSizeT4(data, b, r, g) ==
    (IF b = "LP64" THEN g.hi * UInt32Mod ELSE 0) + Read32(data, r, g)

\* "Check that content stays within bounds": sz + ofs > size, a uint32_t sum
BSPSlotOut(size, ofs, sz) == (sz + ofs) % UInt32Mod > size

\* "Validate directory": the 15 (offset, size) pairs of the header, slot a
\* onwards.  The sum is a uint32_t sum.
RECURSIVE BSPReadSlots(_, _, _, _, _)
BSPReadSlots(data, g, r, a, texoffset) ==
    IF a = 15 THEN [r |-> r, texoffset |-> texoffset]
    ELSE
      LET size == Len(data)
          ofs == Read32(data, r, g)
          r1 == McRead(r, size, 4, "header")
          sz == Read32(data, r1, g)
          r2 == Log(McRead(r1, size, 4, "header"),
                    <<"slot", a, ofs, sz, McCanRead(r, size, 4) /\ McCanRead(r1, size, 4)>>)
      IN  IF BSPSlotOut(size, ofs, sz)
          THEN [r |-> Fail(r2, "slot"), texoffset |-> texoffset]
          ELSE IF a = 2 /\ sz = 0
          THEN [r |-> Fail(r2, "notexture"), texoffset |-> ofs]
          ELSE BSPReadSlots(data, g, r2, a + 1, IF a = 2 THEN ofs ELSE texoffset)

\* "Cap texture name if needed and clean out garbage characters": char name[17]
\* after the loop over d = 1..16 (C index d is index d + 1 here).
BSPCleanName(n16) ==
    [i \in 1..17 |->
        IF i = 17 THEN 0
        ELSE IF i >= 2 /\ \E j \in 2..i : n16[j] = 0 THEN 0
        ELSE n16[i]]

\* The texture header at the cursor: name[16] and six uint32_t, read one by one.
BSPReadTexHeader(data, r, g) ==
    LET size == Len(data)
        name == IF McCanRead(r, size, 16) THEN BytesAt(data, r.cur, 16)
                ELSE [i \in 1..16 |-> g.w % ByteMod]
        r1 == McRead(r, size, 16, "texheader")
        width == Read32(data, r1, g)
        r2 == McRead(r1, size, 4, "texheader")
        height == Read32(data, r2, g)
        r3 == McRead(r2, size, 4, "texheader")
        offset1 == Read32(data, r3, g)
        r4 == McRead(r3, size, 4, "texheader")
        offset2 == Read32(data, r4, g)
        r5 == McRead(r4, size, 4, "texheader")
        offset4 == Read32(data, r5, g)
        r6 == McRead(r5, size, 4, "texheader")
        offset8 == Read32(data, r6, g)
        r7 == Log(McRead(r6, size, 4, "texheader"),
                  <<"texheader", r.cur, McCanRead(r, size, 40), width, height>>)
    IN  [r |-> r7, name |-> name, width |-> width, height |-> height,
         offset1 |-> offset1, offset2 |-> offset2, offset4 |-> offset4,
         offset8 |-> offset8]

\* The dimension test without its two comparisons against zero.
BSPBadDimensionsModuloOnly(width, height) ==
    width % 8 # 0 \/ height % 8 # 0

\* "Dimensions must be multiples of 8 but cannot be null"
BSPBadDimensions(width, height) ==
    width % 8 # 0 \/ height % 8 # 0 \/ width = 0 \/ height = 0

\* uint32_t tex_size = width * height
BSPTexSize(width, height) == (width * height) % UInt32Mod

\* texoffset + offset + sub + block > size, a size_t sum
BSPSubImageOut(b, size, texoffset, offset, sub, block) ==
    (texoffset + offset + sub + block) % SizeTMod(b) > size

\* "Check that texture data is within bounds": the four mip levels
BSPTexDataOut(b, size, texoffset, offset, h) ==
    LET tex_size == BSPTexSize(h.width, h.height)
    IN  \/ BSPSubImageOut(b, size, texoffset, offset, h.offset1, tex_size)
        \/ BSPSubImageOut(b, size, texoffset, offset, h.offset2, tex_size \div 4)
        \/ BSPSubImageOut(b, size, texoffset, offset, h.offset4, tex_size \div 16)
        \/ BSPSubImageOut(b, size, texoffset, offset, h.offset8, tex_size \div 64)

\* uint32_t lumpsize
BSPLumpSize(width, height) ==
    LET tex_size == BSPTexSize(width, height)
    IN  (40 + tex_size + (tex_size \div 4) + (tex_size \div 16) + (tex_size \div 64))
            % UInt32Mod

\* offset + texoffset + 40 > size, a size_t sum
BSPTexHeaderOut(b, size, texoffset, offset) ==
    (offset + texoffset + 40) % SizeTMod(b) > size

\* "Check that each texture is within bounds": iteration a onwards of the loop
\* over the numtex slots of the offset table.  When the read of a slot fails
\* the cursor stays, so every later iteration sees the same bytes: a skipped
\* slot then ends the loop.
RECURSIVE BSPReadTextures(_, _, _, _, _, _, _)
BSPReadTextures(data, b, g, r, a, numtex, texoffset) ==
    IF ~(a < numtex) THEN r
    ELSE
      LET size == Len(data)
          readok == McCanRead(r, size, 4)
          offset == ReadSizeT4(data, b, r, g)
          r1 == Log(McRead(r, size, 4, "slot"), <<"texslot", a, offset, readok>>)
      IN  IF offset = UInt32Max
          THEN IF readok THEN BSPReadTextures(data, b, g, r1, a + 1, numtex, texoffset)
               ELSE r1
          ELSE IF BSPTexHeaderOut(b, size, texoffset, offset) THEN Fail(r1, "texheader")
          ELSE
            LET currentpos == r1.cur
                h == BSPReadTexHeader(data,
                        McSeek(r1, size, (texoffset + offset) % UInt32Mod), g)
            IN  IF BSPBadDimensions(h.width, h.height) THEN Fail(h.r, "dimensions")
                ELSE IF BSPTexDataOut(b, size, texoffset, offset, h)
                THEN Fail(h.r, "texdata")
                ELSE
                  LET nlump == NewLump(CStr(BSPCleanName(h.name)),
                                       BSPLumpSize(h.width, h.height),
                                       (offset + texoffset) % UInt32Mod)
                      r2 == [h.r EXCEPT
                                !.entries = Append(@, nlump),
                                !.events = Append(@, <<"addEntry", Len(h.r.entries) + 1>>)]
                  IN  BSPReadTextures(data, b, g, McSeek(r2, size, currentpos),
                                      a + 1, numtex, texoffset)

\* texoffset + ((numtex + 1) << 2) > size, a uint32_t sum
BSPTableOut(size, texoffset, numtex) ==
    (texoffset + ((((numtex + 1) % UInt32Mod) * 4) % UInt32Mod)) % UInt32Mod > size

\* The size test comparing against the 4 bytes of the version field only.
BSPTooShortVersionOnly(size) == size < 4

\* "If size is less than 64, there's not even enough room for a full header"
BSPTooShort(size) == size < 64

BSPOpenRun(data, b, g, a, cur, load_data) ==
    LET size == Len(data)
        r0 == Frame(a, cur)
    IN  IF BSPTooShort(size) THEN Fail(r0, "size")
        ELSE
          LET r1 == McRead(McSeek(r0, size, 0), size, 4, "version")
              version == Dec32(BytesAt(data, 0, 4))
          IN  IF version # 23 /\ version # 29 THEN Fail(r1, "version")
              ELSE
                LET hd == BSPReadSlots(data, g, [r1 EXCEPT !.muted = TRUE], 0, 0)
                IN  IF hd.r.status # "run" THEN hd.r
                    ELSE
                      LET r2 == McSeek(hd.r, size, hd.texoffset)
                          numtex == Read32(data, r2, g)
                          r3 == McRead(r2, size, 4, "count")
                      IN  IF BSPTableOut(size, hd.texoffset, numtex) THEN Fail(r3, "table")
                          ELSE
                            LET r4 == BSPReadTextures(data, b, g, r3, 0, numtex,
                                                      hd.texoffset)
                            IN  IF r4.status # "run" THEN r4
                                ELSE FinishOpen(data, r4, load_data)

-----------------------------------------------------------------------------
(* BSPArchive::isBSPArchive(MemChunk&) *)

\* The same 15 pairs as open() reads, without the log messages.
RECURSIVE IsBSPReadSlots(_, _, _, _, _)
IsBSPReadSlots(data, g, r, a, texoffset) ==
    IF a = 15 THEN [r |-> r, texoffset |-> texoffset]
    ELSE
      LET size == Len(data)
          ofs == Read32(data, r, g)
          r1 == McRead(r, size, 4, "header")
          sz == Read32(data, r1, g)
          r2 == Log(McRead(r1, size, 4, "header"),
                    <<"slot", a, ofs, sz, McCanRead(r, size, 4) /\ McCanRead(r1, size, 4)>>)
      IN  IF BSPSlotOut(size, ofs, sz)
          THEN [r |-> Fail(r2, "slot"), texoffset |-> texoffset]
          ELSE IF a = 2 /\ sz = 0
          THEN [r |-> Fail(r2, "notexture"), texoffset |-> ofs]
          ELSE IsBSPReadSlots(data, g, r2, a + 1, IF a = 2 THEN ofs ELSE texoffset)

\* The texture loop of isBSPArchive: the header bound is tested before the
\* offset is compared with 0xFFFFFFFF.
RECURSIVE IsBSPReadTextures(_, _, _, _, _, _, _)
IsBSPReadTextures(data, b, g, r, a, numtex, texoffset) ==
    IF ~(a < numtex) THEN r
    ELSE
      LET size == Len(data)
          readok == McCanRead(r, size, 4)
          offset == ReadSizeT4(data, b, r, g)
          r1 == Log(McRead(r, size, 4, "slot"), <<"texslot", a, offset, readok>>)
      IN  IF BSPTexHeaderOut(b, size, texoffset, offset) THEN Fail(r1, "texheader")
          ELSE IF offset = UInt32Max
          THEN IF readok THEN IsBSPReadTextures(data, b, g, r1, a + 1, numtex, texoffset)
               ELSE r1
          ELSE
            LET currentpos == r1.cur
                h == BSPReadTexHeader(data,
                        McSeek(r1, size, (texoffset + offset) % UInt32Mod), g)
            IN  IF BSPBadDimensions(h.width, h.height) THEN Fail(h.r, "dimensions")
                ELSE IF BSPTexDataOut(b, size, texoffset, offset, h)
                THEN Fail(h.r, "texdata")
                ELSE IsBSPReadTextures(data, b, g, McSeek(h.r, size, currentpos),
                                       a + 1, numtex, texoffset)

IsBSPArchiveRun(data, b, g, a, cur) ==
    LET size == Len(data)
        r0 == Frame(a, cur)
    IN  IF BSPTooShort(size) THEN Fail(r0, "size")
        ELSE
          LET r1 == McRead(McSeek(r0, size, 0), size, 4, "version")
              version == Dec32(BytesAt(data, 0, 4))
          IN  IF version # 23 /\ version # 29 THEN Fail(r1, "version")
              ELSE
                LET hd == IsBSPReadSlots(data, g, r1, 0, 0)
                IN  IF hd.r.status # "run" THEN hd.r
                    ELSE
                      LET r2 == McSeek(hd.r, size, hd.texoffset)
                          numtex == Read32(data, r2, g)
                          r3 == McRead(r2, size, 4, "count")
                      IN  IF BSPTableOut(size, hd.texoffset, numtex) THEN Fail(r3, "table")
                          ELSE
                            LET r4 == IsBSPReadTextures(data, b, g, r3, 0, numtex,
                                                        hd.texoffset)
                            IN  IF r4.status # "run" THEN r4
                                ELSE [r4 EXCEPT !.status = "true"]

-----------------------------------------------------------------------------
(* BSPArchive::isBSPArchive(string_view filename) *)

\* SFile::read / SFile::get of a uint32_t at position cur of the file: w is
\* what the variable holds when fewer than four bytes are left.
FileGet32(data, cur, w) ==
    IF cur + 4 <= Len(data) THEN Dec32(BytesAt(data, cur, 4)) ELSE w

\* The file position after a read of n bytes at cur: a read stops at the end
\* of the file.
FileAdvance(data, cur, n) ==
    IF cur >= Len(data) THEN cur ELSE Min2(cur + n, Len(data))

\* The 15 (offset, size) pairs, slot a onwards: no test of the size of slot 2.
RECURSIVE IsBSPFileReadSlots(_, _, _, _, _)
IsBSPFileReadSlots(data, w, cur, a, texoffset) ==
    IF a = 15 THEN [ok |-> TRUE, cur |-> cur, texoffset |-> texoffset]
    ELSE
      LET ofs == FileGet32(data, cur, w)
          c1 == FileAdvance(data, cur, 4)
          sz == FileGet32(data, c1, w)
          c2 == FileAdvance(data, c1, 4)
      IN  IF BSPSlotOut(Len(data), ofs, sz)
          THEN [ok |-> FALSE, cur |-> c2, texoffset |-> texoffset]
          ELSE IsBSPFileReadSlots(data, w, c2, a + 1, IF a = 2 THEN ofs ELSE texoffset)

\* texoffset + offset + sub + block > fsize with a uint32_t offset: a uint32_t sum
IsBSPFileSubImageOut(fsize, texoffset, offset, sub, block) ==
    (texoffset + offset + sub + block) % UInt32Mod > fsize

\* The texture loop of the file check, slot a onwards: offset is a uint32_t and
\* is not compared with 0xFFFFFFFF.  An iteration that starts at the end of
\* the file and passes is followed by identical ones.
RECURSIVE IsBSPFileReadTextures(_, _, _, _, _, _)
IsBSPFileReadTextures(data, w, cur, a, numtex, texoffset) ==
    IF ~(a < numtex) THEN "true"
    ELSE
      LET fsize == Len(data)
          offset == FileGet32(data, cur, w)
          currentpos == FileAdvance(data, cur, 4)
      IN  IF (offset + texoffset + 40) % UInt32Mod > fsize THEN "false"
          ELSE
            LET p0 == (texoffset + offset) % UInt32Mod
                p1 == FileAdvance(data, p0, 16)
                width == FileGet32(data, p1, w)
                p2 == FileAdvance(data, p1, 4)
                height == FileGet32(data, p2, w)
                p3 == FileAdvance(data, p2, 4)
                offset1 == FileGet32(data, p3, w)
                p4 == FileAdvance(data, p3, 4)
                offset2 == FileGet32(data, p4, w)
                p5 == FileAdvance(data, p4, 4)
                offset4 == FileGet32(data, p5, w)
                p6 == FileAdvance(data, p5, 4)
                offset8 == FileGet32(data, p6, w)
                texsize == BSPTexSize(width, height)
            IN  IF BSPBadDimensions(width, height) THEN "false"
                ELSE IF \/ IsBSPFileSubImageOut(fsize, texoffset, offset, offset1, texsize)
                        \/ IsBSPFileSubImageOut(fsize, texoffset, offset, offset2,
                                                texsize \div 4)
                        \/ IsBSPFileSubImageOut(fsize, texoffset, offset, offset4,
                                                texsize \div 16)
                        \/ IsBSPFileSubImageOut(fsize, texoffset, offset, offset8,
                                                texsize \div 64)
                THEN "false"
                ELSE IF currentpos = cur THEN "true"
                ELSE IsBSPFileReadTextures(data, w, currentpos, a + 1, numtex, texoffset)

\* The check on a file that holds the bytes data.
IsBSPArchiveFileRun(data, w) ==
    LET fsize == Len(data)
    IN  IF BSPTooShort(fsize) THEN "false"
        ELSE
          LET version == FileGet32(data, 0, w)
          IN  IF version # 23 /\ version # 29 THEN "false"
              ELSE
                LET hd == IsBSPFileReadSlots(data, w, 4, 0, 0)
                IN  IF ~hd.ok THEN "false"
                    ELSE
                      LET numtex == FileGet32(data, hd.texoffset, w)
                          cur == FileAdvance(data, hd.texoffset, 4)
                      IN  IF BSPTableOut(fsize, hd.texoffset, numtex) THEN "false"
                          ELSE IsBSPFileReadTextures(data, w, cur, 0, numtex,
                                                     hd.texoffset)

-----------------------------------------------------------------------------
(* LfdArchive::isLfdArchive(MemChunk&) *)

\* A char array filled by mc.read(buf, n), or left as it was when the read fails.
ReadChars(data, r, n, w) ==
    IF McCanRead(r, Len(data), n) THEN BytesAt(data, r.cur, n)
    ELSE [i \in 1..n |-> w % ByteMod]

\* One (type, name, length) record read at the cursor into uninitialised
\* variables holding w.
LfdReadRecord(data, r, w) ==
    LET size == Len(data)
        type == ReadChars(data, r, 4, w)
        r1 == McRead(r, size, 4, "record")
        name == ReadChars(data, r1, 8, w)
        r2 == McRead(r1, size, 8, "record")
        len == IF McCanRead(r2, size, 4) THEN Dec32(BytesAt(data, r2.cur, 4)) ELSE w
        r3 == McRead(r2, size, 4, "record")
    IN  [r |-> r3, type |-> CStr(type), name |-> CStr(name), len |-> len]

IsLfdArchiveRun(data, g, a, cur) ==
    LET size == Len(data)
        r0 == Frame(a, cur)
    IN  IF size < 12 THEN Fail(r0, "size")
        ELSE
          LET r1 == McIndex(McIndex(McIndex(McIndex(r0, 0), 1), 2), 3)
          IN  IF BytesAt(data, 0, 4) # Str(<<"R", "M", "A", "P">>) THEN Fail(r1, "magic")
              ELSE
                LET r2 == McSeek(r1, size, 12)
                    raw == IF McCanRead(r2, size, 4) THEN Dec32(BytesAt(data, 12, 4)) ELSE 0
                    r3 == McRead(r2, size, 4, "dirlen")
                    dir_offset == (raw + 16) % UInt32Mod
                IN  IF dir_offset % 16 # 0 THEN Fail(r3, "dirlen")
                    ELSE
                      LET rec1 == LfdReadRecord(data, r3, g.w)
                      IN  IF size < (dir_offset + 16 + rec1.len) % UInt32Mod
                          THEN Fail(rec1.r, "bounds")
                          ELSE
                            LET rec2 == LfdReadRecord(data,
                                            McSeek(rec1.r, size, dir_offset), g.v)
                            IN  IF \/ rec1.type # rec2.type
                                   \/ rec1.name # rec2.name
                                   \/ rec1.len # rec2.len
                                THEN Fail(rec2.r, "compare")
                                ELSE [rec2.r EXCEPT !.status = "true"]

-----------------------------------------------------------------------------
(* Lazy loading and write *)

\* Archive::loadEntryDataAtOffset(entry, offset) as LfdArchive::loadEntryData and
\* BSPArchive::loadEntryData call it: size bytes at the entry's stored offset
\* of the source the archive was opened from.
LoadEntryData(e, src) ==
    IF e.offset + e.size <= Len(src)
    THEN [e EXCEPT !.data = BytesAt(src, e.offset, e.size), !.loaded = TRUE]
    ELSE e

\* ArchiveEntry::dataRaw(): loads the entry's data first when it is not loaded.
DataRaw(e, src) == IF e.loaded THEN e ELSE LoadEntryData(e, src)

\* What a reader of the entry gets: its name, its size and the bytes dataRaw()
\* returns for an archive whose source is src.
EntryView(e, src) ==
    [name |-> e.name, size |-> e.size, payload |-> DataRaw(e, src).data]

\* MemChunk::write(data, n) at the cursor; the chunk grows when needed.
McWrite(o, bs) ==
    LET n == Len(bs)
        newlen == IF o.cur + n > Len(o.data) THEN o.cur + n ELSE Len(o.data)
    IN  [data |-> [i \in 1..newlen |->
                      IF i > o.cur /\ i <= o.cur + n THEN bs[i - o.cur]
                      ELSE IF i <= Len(o.data) THEN o.data[i] ELSE 0],
         cur |-> o.cur + n]

\* A write that clears the output buffer before it reports the failure.
BSPWriteRunClearing(a, o, update) ==
    [ret |-> "false", out |-> [data |-> <<>>, cur |-> 0], entries |-> a.entries]

\* BSPArchive::write
BSPWriteRun(a, o, update) ==
    [ret |-> "false", out |-> o, entries |-> a.entries]

\* The size pass counting 32 bytes of record for every entry.
RECURSIVE LfdWriteSizesWide(_, _, _, _)
LfdWriteSizesWide(entries, l, total_size, update) ==
    IF l > Len(entries) THEN [entries |-> entries, total_size |-> total_size]
    ELSE LET t1 == (total_size + 32) % UInt32Mod
             e1 == [entries[l] EXCEPT !.offset = t1,
                                      !.state = IF update THEN 0 ELSE @]
         IN  LfdWriteSizesWide([entries EXCEPT ![l] = e1], l + 1,
                               (t1 + entries[l].size) % UInt32Mod, update)

\* "Determine total size": entry l onwards; every entry's offset is set.
RECURSIVE LfdWriteSizes(_, _, _, _)
LfdWriteSizes(entries, l, total_size, update) ==
    IF l > Len(entries) THEN [entries |-> entries, total_size |-> total_size]
    ELSE LET t1 == (total_size + 16) % UInt32Mod
             e1 == [entries[l] EXCEPT !.offset = t1,
                                      !.state = IF update THEN 0 ELSE @]
         IN  LfdWriteSizes([entries EXCEPT ![l] = e1], l + 1,
                           (t1 + entries[l].size) % UInt32Mod, update)

\* The record with the name field written ahead of the type field.
LfdRecordOfNameFirst(e) ==
    SubSeq(Pad(FileNameOf(e.name), 9), 1, 8)
        \o SubSeq(Pad(ExtensionOf(e.name), 5), 1, 4)
        \o Enc32(e.size % UInt32Mod)

\* The 16-byte record write() emits for an entry: type[5] and name[9] are
\* zeroed, filled from the extension and the base name, and 4 and 8 bytes of
\* them are written, then the size.
LfdRecordOf(e) ==
    SubSeq(Pad(ExtensionOf(e.name), 5), 1, 4)
        \o SubSeq(Pad(FileNameOf(e.name), 9), 1, 8)
        \o Enc32(e.size % UInt32Mod)

\* "Write the resource map first": the directory records, entry l onwards.
RECURSIVE LfdWriteDirectory(_, _, _)
LfdWriteDirectory(entries, l, o) ==
    IF l > Len(entries) THEN o
    ELSE LfdWriteDirectory(entries, l + 1, McWrite(o, LfdRecordOf(entries[l])))

\* "Write the lumps": record and payload of entry l onwards.  A payload that
\* cannot be loaded gives a null dataRaw() and the write of it fails.
RECURSIVE LfdWriteLumps(_, _, _, _)
LfdWriteLumps(entries, src, l, o) ==
    IF l > Len(entries) THEN [entries |-> entries, out |-> o]
    ELSE LET e == DataRaw(entries[l], src)
             o1 == McWrite(o, LfdRecordOf(e))
             o2 == IF e.loaded THEN McWrite(o1, SubSeq(e.data, 1, e.size)) ELSE o1
         IN  LfdWriteLumps([entries EXCEPT ![l] = e], src, l + 1, o2)

\* LfdArchive::write
LfdWriteRun(a, src, o, update) ==
    LET n == Len(a.entries)
        dir_size == ((n + 1) * 16) % UInt32Mod
        sz == LfdWriteSizes(a.entries, 1, dir_size, update)
        o0 == [data |-> Zeros(sz.total_size), cur |-> 0]
        o1 == McWrite(o0, Pad(Str(<<"R", "M", "A", "P">>), 4)
                            \o Pad(Str(<<"r", "e", "s", "o", "u", "r", "c", "e">>), 8)
                            \o Enc32((n * 16) % UInt32Mod))
        o2 == LfdWriteDirectory(sz.entries, 1, o1)
        w == LfdWriteLumps(sz.entries, src, 1, o2)
    IN  [ret |-> "true", out |-> w.out, entries |-> w.entries]

-----------------------------------------------------------------------------
(* LfdArchive::addEntry *)

\* A null ArchiveEntry*.
NullEntry == [obj |-> "null"]

\* ArchiveEntry(const ArchiveEntry&): a new object with the fields of e.
CopyEntry(e) == [e EXCEPT !.obj = "copy"]

\* ArchiveTreeNode::addEntry(entry, index): before the entry at index, at the
\* end when index is not below the number of entries.
TreeAddEntry(entries, e, index) ==
    IF index >= Len(entries) THEN Append(entries, e)
    ELSE SubSeq(entries, 1, index) \o <<e>> \o SubSeq(entries, index + 1, Len(entries))

\* Archive::addEntry(entry, position) with its default arguments: the root
\* directory, no copy.
ArchiveAddEntry(a, e, position) ==
    [entries |-> TreeAddEntry(a.entries, e, position), modified |-> TRUE]

\* addEntry without the test of the read-only flag.
LfdAddEntryRunIgnoringReadOnly(a, entry, position, dir, copy) ==
    IF entry.obj = "null"
    THEN [ret |-> "null", entries |-> a.entries, modified |-> a.modified]
    ELSE LET e == IF copy THEN CopyEntry(entry) ELSE entry
             r == ArchiveAddEntry(a, e, position)
         IN  [ret |-> e.obj, entries |-> r.entries, modified |-> r.modified]

\* LfdArchive::addEntry(entry, position, dir, copy); entry is NullEntry for a
\* null pointer.  The dir argument is not used.
LfdAddEntryRun(a, entry, position, dir, copy) ==
    IF entry.obj = "null"
    THEN [ret |-> "null", entries |-> a.entries, modified |-> a.modified]
    ELSE IF a.readOnly
    THEN [ret |-> "null", entries |-> a.entries, modified |-> a.modified]
    ELSE LET e == IF copy THEN CopyEntry(entry) ELSE entry
             r == ArchiveAddEntry(a, e, position)
         IN  [ret |-> e.obj, entries |-> r.entries, modified |-> r.modified]

\* LfdArchive::addEntry(entry, add_namespace, copy)
LfdAddEntryNamespaceRun(a, entry, copy) ==
    LfdAddEntryRun(a, entry, UInt32Max, "null", copy)

-----------------------------------------------------------------------------
(* The byte sources the model opens *)

\* One 16-byte LFD record.
LfdRecord(type, name, len) == Pad(type, 4) \o Pad(name, 8) \o Enc32(len)

LfdLumps ==
    { [type |-> Str(<<"T", "X">>), name |-> Str(<<"M", "A", "P">>), payload |-> <<1, 2, 3>>],
      [type |-> <<>>, name |-> Str(<<"X", ".", "P">>), payload |-> <<>>],
      [type |-> Str(<<"T", "X", "T", "X">>),
       name |-> Str(<<"R", "R", "R", "R", "A", "A", "A", "A">>), payload |-> <<5>>] }

SeqsUpTo(S, n) == UNION {[1..k -> S] : k \in 0..n}

\* The length the record of lump i declares.
LfdDeclared(p, i) ==
    IF i < Len(p.lumps) \/ p.last = "ok" THEN Len(p.lumps[i].payload)
    ELSE IF p.last = "over" THEN Len(p.lumps[i].payload) + 7
    ELSE UInt32Mod - 16

LfdDirLen(p) ==
    CASE p.dir = "ok" -> 16 * Len(p.lumps)
      [] p.dir = "zero" -> 0
      [] p.dir = "odd" -> 16 * Len(p.lumps) + 8
      [] p.dir = "more" -> 16 * (Len(p.lumps) + 1)

\* An LFD source: the leading record, the directory, then each lump's record
\* and payload, then p.tail more bytes.
LfdSource(p) ==
    LET n == Len(p.lumps)
        rec(i) == LfdRecord(p.lumps[i].type, p.lumps[i].name, LfdDeclared(p, i))
        dirrec(i) == IF i = 1 /\ p.first = "other"
                     THEN LfdRecord(Str(<<"A">>), Str(<<"P">>), 1)
                     ELSE rec(i)
    IN  LfdRecord(Str(<<"R", "M", "A", "P">>),
                  Str(<<"r", "e", "s", "o", "u", "r", "c", "e">>), LfdDirLen(p))
          \o Pad(Concat([i \in 1..n |-> dirrec(i)]), LfdDirLen(p))
          \o Concat([i \in 1..n |-> rec(i) \o p.lumps[i].payload])
          \o [i \in 1..p.tail |-> 7]

NonEmpty(S) == {q \in S : q # <<>>}

LfdParams ==
    LET all == SeqsUpTo(LfdLumps, MaxEntries)
    IN  [lumps : all, dir : {"ok", "zero", "odd", "more"}, last : {"ok"},
         tail : {0}, first : {"same"}]
        \cup [lumps : NonEmpty(all), dir : {"ok", "zero"}, last : {"over", "wrap"},
              tail : {0}, first : {"same"}]
        \cup [lumps : all, dir : {"ok"}, last : {"ok"}, tail : {3}, first : {"same"}]
        \cup [lumps : NonEmpty(all), dir : {"ok", "more"}, last : {"ok"},
              tail : {0}, first : {"other"}]

\* The leading record alone, declaring a directory of 16 bytes that is not there.
LfdHeaderOnly ==
    LfdRecord(Str(<<"R", "M", "A", "P">>),
              Str(<<"r", "e", "s", "o", "u", "r", "c", "e">>), 16)

\* A 64-byte source of two records: the first has a 16-byte payload that reads
\* as a record of length 16 itself, the second declares a length of 2^32 - 32
\* (scaled), so that its offset + length is 32 modulo 2^32.
LfdWrapBack ==
    LfdRecord(Str(<<"R", "M", "A", "P">>),
              Str(<<"r", "e", "s", "o", "u", "r", "c", "e">>), 0)
      \o LfdRecord(Str(<<"T", "X">>), Str(<<"A">>), 16)
      \o LfdRecord(<<>>, Str(<<"X">>), 16)
      \o LfdRecord(Str(<<"T", "X">>), Str(<<"P">>), UInt32Mod - 32)

LfdSources == {LfdSource(p) : p \in LfdParams} \cup {LfdHeaderOnly, LfdWrapBack}

\* A BSP texture header: name[16], width, height and the four mip offsets.
BSPTexHeader(name, w, h, o1, o2, o4, o8) ==
    Pad(name, 16) \o Enc32(w) \o Enc32(h) \o Enc32(o1) \o Enc32(o2) \o Enc32(o4) \o Enc32(o8)

BSPTexKinds ==
    {"good", "sentinel", "baddim", "zerodim", "hdrout", "subout", "big", "compact"}

\* The offset-table slot and the bytes of a texture of the given kind placed at
\* position pos of the miptex lump.
BSPTexture(kind, pos) ==
    LET nm == <<Chr("A"), Chr("M"), 0, Chr("X")>>
        pixels(n) == [i \in 1..n |-> 1 + (i % 3)]
    IN  CASE kind = "good" ->
               [slot |-> pos,
                bytes |-> BSPTexHeader(nm, 8, 8, 40, 104, 120, 124) \o pixels(85)]
          [] kind = "sentinel" -> [slot |-> UInt32Max, bytes |-> <<>>]
          [] kind = "baddim" ->
               [slot |-> pos,
                bytes |-> BSPTexHeader(nm, 12, 8, 40, 104, 120, 124) \o pixels(85)]
          [] kind = "zerodim" ->
               [slot |-> pos, bytes |-> BSPTexHeader(nm, 8, 0, 40, 40, 40, 40)]
          [] kind = "hdrout" -> [slot |-> pos + (UInt32Mod \div 2), bytes |-> <<>>]
          [] kind = "subout" ->
               [slot |-> pos,
                bytes |-> BSPTexHeader(nm, 8, 8, 40, 104, 120, UInt32Mod \div 2)
                            \o pixels(85)]
          [] kind = "big" ->
               [slot |-> pos,
                bytes |-> BSPTexHeader(nm, ByteMod ^ 2, ByteMod ^ 2, 40, 40, 40, 40)]
          [] kind = "compact" ->
               [slot |-> pos,
                bytes |-> BSPTexHeader(<<Chr("X")>>, 8, 8, 40, 40, 40, 40) \o pixels(64)]

\* The textures of kinds texs[i..], laid out one after the other from pos.
RECURSIVE BSPTextures(_, _, _)
BSPTextures(texs, i, pos) ==
    IF i > Len(texs) THEN <<>>
    ELSE LET t == BSPTexture(texs[i], pos)
         IN  <<t>> \o BSPTextures(texs, i + 1, pos + Len(t.bytes))

\* The 15 (offset, size) pairs of a header given slot 2 and slot 5.
BSPSlots(s2, s5) ==
    Concat([a \in 1..15 |->
              IF a = 3 THEN Enc32(s2[1]) \o Enc32(s2[2])
              ELSE IF a = 6 THEN Enc32(s5[1]) \o Enc32(s5[2])
              ELSE Zeros(8)])

\* A BSP source with header variant p.hv and the textures p.texs.
BSPSource(p) ==
    LET n == Len(p.texs)
        ts == BSPTextures(p.texs, 1, 4 + 4 * n)
        count == CASE p.hv = "numWrap" -> (UInt32Mod \div 4) - 1
                   [] p.hv = "numOver" -> n + 2
                   [] OTHER -> n
        lump == Enc32(count) \o Concat([i \in 1..n |-> Enc32(ts[i].slot)])
                  \o Concat([i \in 1..n |-> ts[i].bytes])
        version == CASE p.hv = "badversion" -> 30 [] p.hv = "qtest" -> 23 [] OTHER -> 29
        s2 == CASE p.hv = "texEmpty" -> <<124, 0>>
                [] p.hv = "texShort" -> <<124, 2>>
                [] p.hv = "texWrap" -> <<UInt32Mod - 16, 32>>
                [] p.hv = "shortHdr" -> <<60, 8>>
                [] OTHER -> <<124, Len(lump)>>
        s5 == CASE p.hv = "slotOver" -> <<8, UInt32Mod \div 2>>
                [] p.hv = "slotWrap" -> <<UInt32Mod - 16, 32>>
                [] OTHER -> <<0, 0>>
        header == Enc32(version) \o BSPSlots(s2, s5)
    IN  CASE p.hv = "texShort" -> header \o <<0, 0>>
          [] p.hv = "shortHdr" -> SubSeq(header, 1, 100)
          [] OTHER -> header \o lump

\* Texture lists in which only the last texture may be one open() rejects.
BSPTexLists ==
    {q \in SeqsUpTo(BSPTexKinds, MaxEntries) :
        \A i \in 1..(Len(q) - 1) : q[i] \in {"good", "sentinel", "compact"}}

BSPParams ==
    [hv : {"ok", "qtest"}, texs : BSPTexLists]
      \cup [hv : {"badversion", "slotOver", "slotWrap", "texEmpty", "texShort",
                  "texWrap", "numWrap", "numOver", "shortHdr"},
            texs : SeqsUpTo({"good", "sentinel"}, 1)]

BSPSources == {BSPSource(p) : p \in BSPParams}

\* Sources shorter than a header.
ShortSources ==
    { <<>>, Str(<<"R", "M", "A", "P">>) \o Zeros(8), Str(<<"R", "M", "A", "P">>) \o Zeros(11),
      Enc32(29) \o Zeros(59) }

-----------------------------------------------------------------------------
(* The state machine *)

NewArchive(format) ==
    [format |-> format, entries |-> <<>>, muted |-> FALSE, modified |-> FALSE,
     readOnly |-> FALSE]

\* An entry a caller hands to addEntry: one it built itself, with its data.
CallerEntry ==
    [name |-> Str(<<"A", ".", "T", "X">>), size |-> 2, offset |-> 0, loaded |-> TRUE,
     state |-> 2, data |-> <<7, 7>>, type |-> "unknown", obj |-> "arg"]

\* The arguments of the addEntry calls the model makes.
AddEntryCalls ==
    [overload : {"position"}, entry : {"null", "arg"}, position : {0, 1, UInt32Max},
     dir : {"null", "other"}, copy : BOOLEAN]
      \cup [overload : {"namespace"}, entry : {"null", "arg"}, position : {UInt32Max},
            dir : {"null"}, copy : BOOLEAN]

NoChunk == [data |-> <<>>, cur |-> 0]

\* The MemChunks a caller may hand to write: an empty one or one in use.
OutChunks == {NoChunk, [data |-> <<1, 2, 3>>, cur |-> 2]}

Init ==
    /\ \E f \in {"bsp", "lfd"} :
         /\ \E ro \in (IF f = "lfd" THEN BOOLEAN ELSE {FALSE}) :
              archive = [NewArchive(f) EXCEPT !.readOnly = ro]
         /\ \E d \in (IF f = "bsp" THEN BSPSources ELSE LfdSources) \cup ShortSources :
              \E c \in (IF d \in ShortSources THEN {0, 7} ELSE {0}) :
                  mc = [data |-> d, cur |-> Min2(c, Len(d))]
    /\ build \in {"ILP32", "LP64"}
    /\ archive_load_data \in BOOLEAN
    /\ source = <<>>
    /\ events = <<>>
    /\ trace = <<>>
    /\ out \in OutChunks
    /\ reopened = NewArchive("lfd")
    /\ first = <<>>
    /\ last = [fn |-> "none", ret |-> "none"]

\* The registry probes the source with isBSPArchive(MemChunk&).
IsBSPArchive ==
    /\ last.fn = "none"
    /\ \E g \in BSPGarbage(build) :
         LET r == IsBSPArchiveRun(mc.data, build, g, archive, mc.cur)
         IN  /\ mc' = [mc EXCEPT !.cur = r.cur]
             /\ trace' = r.trace
             /\ last' = [fn |-> "isBSPArchive", ret |-> r.status]
    /\ UNCHANGED <<build, archive_load_data, archive, source, events, out, reopened, first>>

\* The registry probes the source with isLfdArchive(MemChunk&).
IsLfdArchive ==
    /\ last.fn = "none"
    /\ \E g \in LfdGarbage :
         LET r == IsLfdArchiveRun(mc.data, g, archive, mc.cur)
         IN  /\ mc' = [mc EXCEPT !.cur = r.cur]
             /\ trace' = r.trace
             /\ last' = [fn |-> "isLfdArchive", ret |-> r.status]
    /\ UNCHANGED <<build, archive_load_data, archive, source, events, out, reopened, first>>

\* The registry probes a file that holds the same bytes with
\* isBSPArchive(filename), after it has probed the bytes in memory.
IsBSPArchiveFile ==
    /\ last.fn = "isBSPArchive"
    /\ \E w \in GarbageWords :
         last' = [fn |-> "isBSPArchiveFile", ret |-> IsBSPArchiveFileRun(mc.data, w)]
    /\ trace' = <<>>
    /\ UNCHANGED <<mc, build, archive_load_data, archive, source, events, out, reopened,
                   first>>

\* What a call to open leaves behind.
Opened(r) ==
    /\ mc' = [mc EXCEPT !.cur = r.cur]
    /\ archive' = [archive EXCEPT !.entries = r.entries, !.muted = r.muted,
                                  !.modified = r.modified]
    /\ source' = mc.data
    /\ events' = events \o r.events
    /\ trace' = r.trace
    /\ first' = [i \in 1..Len(r.entries) |-> EntryView(r.entries[i], mc.data)]
    /\ last' = [fn |-> "open", ret |-> r.status]
    /\ UNCHANGED <<build, archive_load_data, out, reopened>>

BSPOpen ==
    /\ archive.format = "bsp"
    /\ last.fn \in {"none", "isBSPArchive", "isLfdArchive"}
    /\ \E g \in BSPGarbage(build) :
         Opened(BSPOpenRun(mc.data, build, g, archive, mc.cur, archive_load_data))

LfdOpen ==
    /\ archive.format = "lfd"
    /\ last.fn \in {"none", "isBSPArchive", "isLfdArchive"}
    /\ Opened(LfdOpenRun(mc.data, build, archive, mc.cur, archive_load_data))

\* What a call to write leaves behind.
Written(w) ==
    /\ out' = w.out
    /\ archive' = [archive EXCEPT !.entries = w.entries]
    /\ last' = [fn |-> "write", ret |-> w.ret]
    /\ trace' = <<>>
    /\ UNCHANGED <<mc, build, archive_load_data, source, events, reopened, first>>

BSPWrite ==
    /\ archive.format = "bsp"
    /\ last.fn = "open" /\ last.ret # "hang"
    /\ \E update \in BOOLEAN : Written(BSPWriteRun(archive, out, update))

LfdWrite ==
    /\ archive.format = "lfd"
    /\ last.fn = "open" /\ last.ret # "hang"
    /\ \E update \in BOOLEAN : Written(LfdWriteRun(archive, source, out, update))

\* The written bytes are opened again by a fresh LfdArchive.
LfdReopen ==
    /\ archive.format = "lfd"
    /\ last.fn = "write" /\ last.ret = "true"
    /\ LET r == LfdOpenRun(out.data, build, NewArchive("lfd"), out.cur, archive_load_data)
       IN  /\ reopened' = [NewArchive("lfd") EXCEPT !.entries = r.entries,
                                                    !.muted = r.muted,
                                                    !.modified = r.modified]
           /\ out' = [out EXCEPT !.cur = r.cur]
           /\ trace' = r.trace
           /\ last' = [fn |-> "reopen", ret |-> r.status]
    /\ UNCHANGED <<mc, build, archive_load_data, archive, source, events, first>>

\* A caller adds an entry to the archive it has opened.
LfdAddEntry ==
    /\ archive.format = "lfd"
    /\ last.fn = "open" /\ last.ret = "true"
    /\ \E c \in AddEntryCalls :
         LET entry == IF c.entry = "null" THEN NullEntry ELSE CallerEntry
             r == IF c.overload = "namespace"
                  THEN LfdAddEntryNamespaceRun(archive, entry, c.copy)
                  ELSE LfdAddEntryRun(archive, entry, c.position, c.dir, c.copy)
         IN  /\ archive' = [archive EXCEPT !.entries = r.entries, !.modified = r.modified]
             /\ last' = [fn |-> "addEntry", ret |-> r.ret, call |-> c]
    /\ UNCHANGED <<mc, build, archive_load_data, source, events, trace, out, reopened,
                   first>>

Next ==
    \/ IsBSPArchive
    \/ IsLfdArchive
    \/ BSPOpen
    \/ LfdOpen
    \/ BSPWrite
    \/ LfdWrite
    \/ LfdReopen
    \/ LfdAddEntry
    \/ IsBSPArchiveFile

Spec == Init /\ [][Next]_vars

-----------------------------------------------------------------------------
(* Claims *)

IsOpen == last.fn = "open"
IsFormat(f) == archive.format = f

\* The seeks and reads of the last call, in order.
MemOps == {i \in 1..Len(trace) : trace[i][1] \in {"seek", "read"}}

\* C1: during BSPArchive::open and LfdArchive::open every position the decoder
\* seeks to is <= the source size and every byte range it reads lies inside
\* the source.
C1_SeeksAndReadsInBounds ==
    IsOpen =>
      \A i \in MemOps :
         /\ trace[i][1] = "seek" => trace[i][2] <= Len(mc.data)
         /\ (trace[i][1] = "read"
               /\ trace[i][4] \in {"count", "slot", "texheader", "record"})
              => trace[i][2] + trace[i][3] <= Len(mc.data)

\* The values of trace entries of one kind.
Logged(kind) == {i \in 1..Len(trace) : trace[i][1] = kind}

\* The check at which the last call returned false, "" when it did not.
Rejected ==
    IF trace # <<>> /\ trace[Len(trace)][1] = "reject" THEN trace[Len(trace)][2] ELSE ""

\* C2: when LfdArchive::open meets a record whose declared length makes
\* offset + length exceed the source size, it returns failure and the root
\* directory holds no entry afterwards.
C2_LfdOverrunLeavesNoEntries ==
    (IsOpen /\ IsFormat("lfd")
       /\ \E i \in Logged("record") : trace[i][2] + trace[i][3] > Len(mc.data))
      => (last.ret = "false" /\ archive.entries = <<>>)

\* C3: when BSPArchive::open returns false because a texture fails a
\* header-bound, dimension or sub-image-bound check, the root directory holds
\* no entry for the textures validated before it.
C3_BSPOpenAtomic ==
    (IsOpen /\ IsFormat("bsp") /\ Rejected \in {"texheader", "dimensions", "texdata"})
      => archive.entries = <<>>

OpenSucceeded == \E i \in 1..Len(events) : events[i] = <<"announce", "opened">>

C5_BSPWriteUnsupported ==
    [][(IsFormat("bsp") /\ last.fn # "write" /\ last'.fn = "write")
         => (last'.ret = "false" /\ out' = out /\ archive' = archive)]_vars

\* BSPArchive::write has run on an archive that holds entries, with an output
\* buffer that held bytes.
C5_Witness ==
    /\ IsFormat("bsp") /\ last.fn = "write" /\ last.ret = "false"
    /\ archive.entries # <<>> /\ out.data # <<>>

\* C6: on a source shorter than the minimum header (64 bytes for BSP, 16 for
\* LFD) open returns failure without reading a byte of the source, without
\* creating an entry and without changing the muted or modified flag.
C6_ShortSourceRejected ==
    [][(last.fn # "open" /\ last'.fn = "open"
          /\ Len(mc.data) < (IF IsFormat("bsp") THEN 64 ELSE 16))
         => /\ last'.ret = "false"
            /\ \A i \in 1..Len(trace') : trace'[i][1] \notin {"seek", "read", "export"}
            /\ mc' = mc
            /\ archive' = archive
            /\ events' = events]_vars

\* BSPArchive::open has run on a 63-byte source that starts with a valid version
\* and whose cursor was not at 0.
C6_Witness ==
    /\ IsOpen /\ IsFormat("bsp") /\ last.ret = "false"
    /\ Len(mc.data) = 63 /\ mc.cur = 7 /\ Rejected = "size"

\* C7: BSPArchive::open (and isBSPArchive) rejects the source whenever, for one
\* of the 15 header slots, the mathematical sum offset + length exceeds the
\* total size, also when the 32-bit sum wraps.
C7_SlotSumRejected ==
    (last.fn \in {"open", "isBSPArchive"} /\ (IsOpen => IsFormat("bsp"))
       /\ \E i \in Logged("slot") : trace[i][5] /\ trace[i][3] + trace[i][4] > Len(mc.data))
      => last.ret = "false"

PositiveMultipleOf8(x) == x > 0 /\ x % 8 = 0

\* C8: BSPArchive::open returns failure when a texture header it reads has a
\* width or height that is zero or no multiple of 8, and it never rejects a
\* texture for its dimensions when both are positive multiples of 8.
C8_DimensionsRule ==
    (IsOpen /\ IsFormat("bsp"))
      => /\ (\E i \in Logged("texheader") :
               /\ trace[i][3]
               /\ ~(PositiveMultipleOf8(trace[i][4]) /\ PositiveMultipleOf8(trace[i][5])))
              => last.ret = "false"
         /\ Rejected = "dimensions"
              => \E i \in Logged("texheader") :
                   /\ \A j \in Logged("texheader") : j <= i
                   /\ ~(PositiveMultipleOf8(trace[i][4]) /\ PositiveMultipleOf8(trace[i][5]))

\* open has rejected a texture whose header was read in full, for a width that
\* is no multiple of 8, after it had accepted a texture before it.
C8_Witness ==
    /\ IsOpen /\ IsFormat("bsp") /\ Rejected = "dimensions"
    /\ archive.entries # <<>>
    /\ \E i \in Logged("texheader") : trace[i][3] /\ trace[i][4] % 8 # 0

\* C9: isBSPArchive(MemChunk&) and isLfdArchive(MemChunk&) leave the source as
\* it was: the read cursor, the bytes and the size.
C9_SignatureCheckRestoresCursor ==
    [][(last.fn = "none" /\ last'.fn \in {"isBSPArchive", "isLfdArchive"})
         => mc' = mc]_vars

\* The positions in events of the "opened" announcements.
Announced == {i \in 1..Len(events) : events[i] = <<"announce", "opened">>}

\* C10: open announces "opened" exactly once when it returns true and never
\* when it returns false, and not before every entry has been added and
\* type-detected.
C10_OpenedAnnouncedOnce ==
    IsOpen
      => /\ last.ret = "true" => Cardinality(Announced) = 1
         /\ last.ret = "false" => Announced = {}
         /\ \A i \in Announced :
              /\ \A j \in 1..Len(events) :
                   events[j][1] \in {"addEntry", "detect"} => j < i
              /\ \A k \in 1..Len(archive.entries) :
                   /\ \E j \in 1..(i - 1) : events[j] = <<"addEntry", k>>
                   /\ \E j \in 1..(i - 1) : events[j] = <<"detect", k>>

\* open has returned true with two entries added and detected.
C10_Witness ==
    /\ IsOpen /\ last.ret = "true" /\ Len(archive.entries) = 2
    /\ Cardinality(Announced) = 1

\* The header slots the last call examined, all read in full and all with
\* offset + length inside the source.
AllSlotsInBounds ==
    /\ {trace[i][2] : i \in Logged("slot")} = 0..14
    /\ \A i \in Logged("slot") : trace[i][5] /\ trace[i][3] + trace[i][4] <= Len(mc.data)

\* The texture count stored in the source where slot 2 points, -1 when slot 2
\* is empty or the count lies outside the source.
StoredTextureCount ==
    IF \E i \in Logged("slot") :
         /\ trace[i][2] = 2 /\ trace[i][4] > 0
         /\ trace[i][3] + 4 <= Len(mc.data)
    THEN LET i == CHOOSE j \in Logged("slot") : trace[j][2] = 2
         IN  Dec32(SubSeq(mc.data, trace[i][3] + 1, trace[i][3] + 4))
    ELSE -1

\* C11: BSPArchive::open rejects a source with an accepted version, 15 slots
\* in bounds and a non-empty slot 2 whose texture directory declares 0 textures.
C11_NoTexturesRejected ==
    (IsOpen /\ IsFormat("bsp") /\ AllSlotsInBounds /\ StoredTextureCount = 0)
      => last.ret = "false"

\* The source starts with the LFD magic and has room for the leading record.
HasLfdHeader ==
    Len(mc.data) >= 16 /\ SubSeq(mc.data, 1, 4) = Str(<<"R", "M", "A", "P">>)

\* The directory length stored in bytes 12..15 of the source.
StoredDirLen == Dec32(SubSeq(mc.data, 13, 16))

\* C12: LfdArchive::open succeeds with zero entries on a source with the magic
\* RMAP whose directory length is a multiple of 16, not larger than the size,
\* and leaves no payload region (directory length + 16 >= size).
C12_EmptyLfdOpens ==
    (IsOpen /\ IsFormat("lfd") /\ HasLfdHeader
       /\ StoredDirLen % 16 = 0 /\ StoredDirLen <= Len(mc.data)
       /\ StoredDirLen + 16 >= Len(mc.data))
      => (last.ret = "true" /\ archive.entries = <<>>)

\* open has run on the 16-byte source that declares a directory of 16 bytes.
C12_Witness ==
    /\ IsOpen /\ IsFormat("lfd") /\ HasLfdHeader
    /\ Len(mc.data) = 16 /\ StoredDirLen = 16
    /\ last.ret = "true" /\ OpenSucceeded

\* C13: isLfdArchive(MemChunk&) returns true on a buffer that carries the magic
\* RMAP and whose directory-length field is no multiple of 16.
C13_OddDirLenStillMatches ==
    (last.fn = "isLfdArchive" /\ HasLfdHeader /\ StoredDirLen % 16 # 0)
      => last.ret = "true"

IsLfdWritten == IsFormat("lfd") /\ last.fn = "write" /\ last.ret = "true"

\* The sum of the sizes of the archive's entries.
EntrySizes == SumSeq([i \in 1..Len(archive.entries) |-> archive.entries[i].size])

\* C14 as stated: the buffer LfdArchive::write produces for n entries is
\* (n+1)*16 + the sum of the entries' sizes bytes long.
C14_WriteLength ==
    IsLfdWritten => Len(out.data) = (Len(archive.entries) + 1) * 16 + EntrySizes

\* C14 amended: the buffer is (2n+1)*16 + the sum of the entries' sizes bytes
\* long: the leading record, n directory records, and before each payload one
\* more 16-byte record.
C14_WriteLengthWithRecords ==
    IsLfdWritten => Len(out.data) = (2 * Len(archive.entries) + 1) * 16 + EntrySizes

\* write has produced the buffer of an archive of two entries, one of them
\* with payload bytes.
C14_Witness ==
    /\ IsLfdWritten /\ Len(archive.entries) = 2 /\ EntrySizes > 0
    /\ Len(out.data) = 80 + EntrySizes

\* Entry i's stored offset is where its payload lies in the written buffer:
\* its 16-byte record ends there and its payload bytes follow.
OffsetMeetsPayload(i) ==
    LET e == archive.entries[i]
    IN  /\ e.offset >= 16 /\ e.offset + e.size <= Len(out.data)
        /\ SubSeq(out.data, e.offset - 15, e.offset) = LfdRecordOf(e)
        /\ SubSeq(out.data, e.offset + 1, e.offset + e.size) = first[i].payload

\* C15: after LfdArchive::write every entry's stored offset is the position in
\* the written buffer where its payload begins, so that reading size bytes
\* there gives the entry's payload.
C15_OffsetsAfterWrite ==
    IsLfdWritten => \A i \in 1..Len(archive.entries) : OffsetMeetsPayload(i)

\* The record the claim describes for an entry: extension in 4 bytes, base
\* name in 8 bytes, each cut or zero-filled to its width, then the size.
DescribedRecord(name, size) ==
    Pad(ExtensionOf(name), 4) \o Pad(FileNameOf(name), 8) \o Enc32(size)

\* The leading record and the n directory records of the claim.
DescribedDirectory(es) ==
    Pad(Str(<<"R", "M", "A", "P">>), 4)
      \o Pad(Str(<<"r", "e", "s", "o", "u", "r", "c", "e">>), 8)
      \o Enc32(16 * Len(es))
      \o Concat([i \in 1..Len(es) |-> DescribedRecord(es[i].name, es[i].size)])

WalkedRecords == Logged("record")

\* C17: in LfdArchive::open a difference between directory-length / 16 and the
\* number of payload records walked never makes open fail: with a valid
\* header and every walked record inside the source, open returns true and
\* the archive holds exactly the walked records.
C17_CountMismatchIsNoFailure ==
    (IsOpen /\ IsFormat("lfd") /\ HasLfdHeader
       /\ StoredDirLen % 16 = 0 /\ StoredDirLen <= Len(mc.data)
       /\ (\A i \in WalkedRecords : trace[i][2] + trace[i][3] <= Len(mc.data))
       /\ StoredDirLen \div 16 # Cardinality(WalkedRecords))
      => /\ last.ret = "true"
         /\ Len(archive.entries) = Cardinality(WalkedRecords)
         /\ \A i \in WalkedRecords :
              LET k == Cardinality({j \in WalkedRecords : j <= i})
              IN  /\ archive.entries[k].offset = trace[i][2]
                  /\ archive.entries[k].size = trace[i][3]

\* open has succeeded on a source that declares a directory of 32 bytes and
\* holds one payload record.
C17_Witness ==
    /\ IsOpen /\ IsFormat("lfd") /\ HasLfdHeader /\ last.ret = "true"
    /\ StoredDirLen = 32 /\ Len(archive.entries) = 1
    /\ \E i \in 1..Len(trace) : trace[i] = <<"warning", "count">>

\* C18: after a successful LfdArchive::open the first entry's stored offset is
\* directory-length + 32, every following entry's offset is the previous
\* entry's offset + size + 16, and every entry's offset + size is <= the
\* source size.
C18_ContiguousOffsets ==
    (IsOpen /\ IsFormat("lfd") /\ last.ret = "true")
      => LET es == archive.entries
         IN  /\ es # <<>> => es[1].offset = StoredDirLen + 32
             /\ \A k \in 2..Len(es) : es[k].offset = es[k - 1].offset + es[k - 1].size + 16
             /\ \A k \in 1..Len(es) : es[k].offset + es[k].size <= Len(mc.data)

\* Where slot 2 of the header points: the base of the texture directory.
StoredTexOffset ==
    LET i == CHOOSE j \in Logged("slot") : trace[j][2] = 2 IN trace[i][3]

\* The offset table lies inside the source.
StoredTableInBounds ==
    /\ AllSlotsInBounds /\ StoredTextureCount >= 0
    /\ StoredTexOffset + 4 + 4 * StoredTextureCount <= Len(mc.data)

\* The value the source holds in slot a of the offset table.
StoredSlot(a) ==
    Dec32(SubSeq(mc.data, StoredTexOffset + 4 + 4 * a + 1, StoredTexOffset + 4 + 4 * a + 4))

\* The table slot the texture loop examined last.
LastTexSlot ==
    LET i == CHOOSE j \in Logged("texslot") : \A k \in Logged("texslot") : k <= j
    IN  trace[i][2]

\* C19: in BSPArchive::open a table slot holding 0xFFFFFFFF is skipped: open
\* is never rejected at such a slot, and after a successful open the number of
\* entries is the number of slots that do not hold the sentinel.
C19_SentinelSkipped ==
    (IsOpen /\ IsFormat("bsp") /\ StoredTableInBounds)
      => /\ (Rejected \in {"texheader", "dimensions", "texdata"}
               => StoredSlot(LastTexSlot) # UInt32Max)
         /\ last.ret = "true"
              => Len(archive.entries) =
                   Cardinality({a \in 0..(StoredTextureCount - 1) :
                                   StoredSlot(a) # UInt32Max})

\* The table slots of the source that do not hold the sentinel, in table order.
TextureSlots ==
    LET RECURSIVE from(_)
        from(a) == IF a >= StoredTextureCount THEN <<>>
                   ELSE IF StoredSlot(a) = UInt32Max THEN from(a + 1)
                   ELSE <<a>> \o from(a + 1)
    IN  from(0)

\* A 32-bit field of the texture header that table slot a points to.
StoredHeaderField(a, at) ==
    LET pos == StoredTexOffset + StoredSlot(a) + at
    IN  Dec32(SubSeq(mc.data, pos + 1, pos + 4))

\* The size the claim gives an entry: 40 + w*h + w*h/4 + w*h/16 + w*h/64.
DescribedLumpSize(w, h) ==
    40 + w * h + ((w * h) \div 4) + ((w * h) \div 16) + ((w * h) \div 64)

\* C20: every entry created by a successful BSPArchive::open has the size
\* 40 + w*h + (w*h >> 2) + (w*h >> 4) + (w*h >> 6) of its texture, the stored
\* offset texture-directory base + the slot's relative offset, and the entries
\* are in offset-table order.
C20_EntrySizeAndOffset ==
    (IsOpen /\ IsFormat("bsp") /\ last.ret = "true" /\ StoredTableInBounds)
      => /\ Len(archive.entries) = Len(TextureSlots)
         /\ \A k \in 1..Len(archive.entries) :
              k <= Len(TextureSlots)
                => LET a == TextureSlots[k]
                   IN  /\ archive.entries[k].offset = StoredTexOffset + StoredSlot(a)
                       /\ archive.entries[k].size =
                            DescribedLumpSize(StoredHeaderField(a, 16),
                                              StoredHeaderField(a, 20))

\* C21: BSPArchive::open and isBSPArchive(MemChunk&) reject the source whenever
\* texture-directory base + (N+1)*4, taken as a mathematical value, exceeds
\* the total size, for every 32-bit texture count N, also when (N+1)*4 or the
\* sum wraps in 32 bits; the texture loop never reads a table slot that lies
\* outside the source.
C21_TableBoundRejected ==
    (last.fn \in {"open", "isBSPArchive"} /\ (IsOpen => IsFormat("bsp"))
       /\ AllSlotsInBounds /\ StoredTextureCount >= 0)
      => /\ StoredTexOffset + (StoredTextureCount + 1) * 4 > Len(mc.data)
              => last.ret = "false"
         /\ \A i \in Logged("texslot") : trace[i][4]

\* Sub-image m (0..3) of the texture that table slot a points to ends inside
\* the source: sub-header position + sub-image offset + (w*h >> 2m), with w*h
\* the mathematical product.
SubImageInBounds(a, m) ==
    LET w == StoredHeaderField(a, 16)
        h == StoredHeaderField(a, 20)
    IN  StoredTexOffset + StoredSlot(a) + StoredHeaderField(a, 24 + 4 * m)
          + ((w * h) \div (4 ^ m)) <= Len(mc.data)

\* C22: when BSPArchive::open accepts a source, each of the four sub-image
\* ranges of every non-sentinel texture ends within the total size, the block
\* sizes being w*h, w*h>>2, w*h>>4 and w*h>>6 of the mathematical product w*h.
C22_SubImagesInBounds ==
    (IsOpen /\ IsFormat("bsp") /\ last.ret = "true" /\ StoredTableInBounds)
      => \A k \in 1..Len(TextureSlots) :
           \A m \in 0..3 : SubImageInBounds(TextureSlots[k], m)

\* C23: isBSPArchive(MemChunk&) accepts exactly the sources BSPArchive::open
\* decodes: when open runs on the source the check has just examined, open
\* returns true if and only if the check returned true.
C23_CheckAgreesWithOpen ==
    [][(IsFormat("bsp") /\ last.fn = "isBSPArchive" /\ last'.fn = "open")
         => ((last.ret = "true") <=> (last'.ret = "true"))]_vars

\* s with its k-th element taken out.
Without(s, k) == SubSeq(s, 1, k - 1) \o SubSeq(s, k + 1, Len(s))

\* The positions at which the entry tree holds the caller's object or a copy
\* of it.
AddedAt(es) == {k \in 1..Len(es) : es[k].obj \in {"arg", "copy"}}

C25_UnmutedOnReturn ==
    (IsOpen /\ last.ret \in {"true", "false"}) => ~archive.muted

\* C26: for every entry BSPArchive::open creates, the payload range
\* [stored offset, stored offset + size) lies within the source, and so does
\* every range the type-detection pass exports.
C26_PayloadInSource ==
    (IsOpen /\ IsFormat("bsp"))
      => /\ \A k \in 1..Len(archive.entries) :
              archive.entries[k].offset + archive.entries[k].size <= Len(mc.data)
         /\ \A i \in Logged("export") : trace[i][2] + trace[i][3] <= Len(mc.data)

\* The 16-byte record that ends where the payload of entry e begins.
RecordBefore(e) == SubSeq(mc.data, e.offset - 15, e.offset)

\* Entry e has the name, type and length the record before its payload holds.
TakenFromRecordBefore(e) ==
    /\ e.offset >= 16 /\ e.offset <= Len(mc.data)
    /\ e.name = PathWithExtension(CStr(SubSeq(RecordBefore(e), 5, 12)),
                                  CStr(SubSeq(RecordBefore(e), 1, 4)))
    /\ e.size = Dec32(SubSeq(RecordBefore(e), 13, 16))

\* C27: in LfdArchive::open the name, type and length of every entry, the
\* first one included, are those of the 16-byte record at (stored offset - 16),
\* and every iteration reads its record at the position the tracked offset
\* has at its start.
C27_RecordBeforePayload ==
    (IsOpen /\ IsFormat("lfd"))
      => /\ \A k \in 1..Len(archive.entries) : TakenFromRecordBefore(archive.entries[k])
         /\ \A i \in WalkedRecords : trace[i - 3][2] = trace[i][2] - 16

\* C28: LfdArchive::write emits for every entry the payload the entry had
\* before the call: for an entry that is unloaded when write starts, the size
\* bytes found at its pre-write stored offset in the source the archive was
\* opened from.
C28_WritesPriorPayload ==
    [][(IsFormat("lfd") /\ last.fn = "open" /\ last'.fn = "write")
         => \A i \in 1..Len(archive.entries) :
              LET e == archive.entries[i]
                  pos == archive'.entries[i].offset
              IN  (e.size > 0 /\ (e.loaded \/ e.offset + e.size <= Len(source)))
                    => /\ pos + e.size <= Len(out'.data)
                       /\ SubSeq(out'.data, pos + 1, pos + e.size)
                            = DataRaw(e, source).data]_vars

\* C29: the two BSP signature checks agree: on the same bytes
\* isBSPArchive(filename) returns what isBSPArchive(MemChunk&) returned.
C29_SignatureChecksAgree ==
    [][(last.fn = "isBSPArchive" /\ last'.fn = "isBSPArchiveFile")
         => last'.ret = last.ret]_vars

=============================================================================
